---- MODULE Spec2Model ----
(***************************************************************************)
(* ara::core::Array<T, N> (include/ara/core/array.h) together with the     *)
(* violation path of ara::core::internal::ViolationHandler                 *)
(* (src/ara/core/internal/violation_handler.cpp).                          *)
(*                                                                         *)
(* One program is modelled: a single thread that owns two containers of    *)
(* the same element type T and the same capacity N, and calls the          *)
(* container's operations in any order.  T and N are template parameters,  *)
(* so they are fixed when the program is built and never change: Spec is   *)
(* the program built with T = int, SafeSpec the one built with the test's  *)
(* SafeTestClass, whose elements are reset by a move.  An                  *)
(* operation whose member function cannot be instantiated for the chosen N *)
(* is recorded with the outcome "ill_formed": the compiler rejects the     *)
(* call, nothing is executed.                                              *)
(***************************************************************************)
EXTENDS Integers, Sequences, FiniteSets, TLC

\* ------------------------------------------------------------------ bounds
MaxN == 2        \* capacities 0..MaxN
MaxVal == 1      \* element values 0..MaxVal (int; 0 is the default value)
MaxThreads == 3  \* threads that call ViolationHandler::Instance()
MaxCallers == 2  \* threads that call DemoManager::StartManager()
MaxNameLen == 3  \* characters of the process name the system reports
PROC_NAME_MAX == 3  \* the platform's constant of that name (QNX build)

Caps == 0..MaxN
\* element types: int, and the test's SafeTestClass (an int value_ that its
\* move constructor and move assignment reset to 0 in the source)
ElemTypes == {"int", "SafeTestClass"}
Vals == 0..MaxVal
Ids == {"a", "b"}
\* indices handed to the accessors of a container of capacity n: every
\* in-range one and the first two past the end
Indices(n) == 0..(n + 1)

\* ------------------------------------------------------------ environment
\* the places in the application that call at(): each is one expression, on
\* a mutable container or through a const reference
CallSites ==
  { [where |-> <<"app.cpp", ":", "10">>, isConst |-> FALSE],
    [where |-> <<"app.cpp", ":", "20">>, isConst |-> TRUE] }

\* short names the operating system may report for the process
ProcNames == { <<"demo_app">> }

\* the builds explored (process_factory.cpp builds for Linux and QNX, any
\* other platform stops at #error), each with its spelling of __FILE__ for
\* array.h as path tokens: a Linux build on a Linux host, a QNX build
\* cross-compiled on a host that spells paths with backslashes
Builds ==
  { [platform |-> "linux",
     file |-> <<"/", "include", "/", "ara", "/", "core", "/", "array.h">>],
    [platform |-> "qnx",
     file |-> <<"C:", "\\", "ara", "\\", "array.h">>] }

VARIABLES
  N,      \* the capacity both containers were instantiated with
  T,      \* the element type both containers were instantiated with
  inst,   \* the function-local static of ViolationHandler::Instance() and
          \* the threads inside Instance()
  mgr,    \* the demo application: DemoManager's static and member data, the
          \* threads inside its functions, the signals of the process
  os,     \* a call of GetProcessName: the caller's buffer, what the system
          \* reports, the result
  platform, \* the operating system the program was built for
  file,   \* the spelling of __FILE__ for array.h in this build
  arr,    \* arr[id]: [live, data]: the container object and its data_
  last,   \* the last container operation and what it produced
  proc,   \* where the process is: "Normal", the violation path, "Terminated"
  vio,    \* the arguments and locals of the violation in flight
  sink    \* what std::cerr has received, fragment by fragment

vars == <<N, T, inst, mgr, os, platform, file, arr, last, proc, vio, sink>>

\* ------------------------------------------------------- stream fragments
\* what operator<< hands to std::cerr: a piece of text or a number
Str(s) == [t |-> "str", s |-> s, n |-> 0]
Num(n) == [t |-> "num", s |-> <<>>, n |-> n]

\* a fragment whose text ends with '\n' completes a line
NL == "\n"
EndsLine(frag) == frag.t = "str" /\ Len(frag.s) > 0 /\ frag.s[Len(frag.s)] = NL

RECURSIVE CountLines(_)
CountLines(out) ==
  IF out = <<>> THEN 0
  ELSE (IF EndsLine(Head(out)) THEN 1 ELSE 0) + CountLines(Tail(out))

\* --------------------------------------------------- location_utils.h
npos == -1

\* mutant: find_first_of in place of find_last_of
find_first_of(fullPath) ==
  LET hits == { i \in 1..Len(fullPath) : fullPath[i] \in {"/", "\\"} }
  IN  IF hits = {} THEN npos
      ELSE (CHOOSE i \in hits : \A j \in hits : i <= j) - 1

\* std::string_view::find_last_of("/\\"): index (from 0) of the last slash
find_last_of(fullPath) ==
  LET hits == { i \in 1..Len(fullPath) : fullPath[i] \in {"/", "\\"} }
  IN  IF hits = {} THEN npos
      ELSE (CHOOSE i \in hits : \A j \in hits : j <= i) - 1

CutLeadingPath(fullPath) ==
  LET pos == find_last_of(fullPath)
  IN  IF pos = npos THEN fullPath
      ELSE SubSeq(fullPath, pos + 2, Len(fullPath))

\* ARA_CORE_INTERNAL_FILELINE expanded on `line` of `f`
FILELINE(f, line) == CutLeadingPath(f \o <<":", line>>)

\* the lines of array.h on which at() expands ARA_CORE_INTERNAL_FILELINE
AtLine(isConst) == IF isConst THEN "420" ELSE "399"

\* ------------------------------------------------------ ArrayStorage
\* ArrayStorage<T, N, true> declares data_; ArrayStorage<T, N, false> does not
HasData(n) == n > 0

\* T data_[N]{} : every element value-initialised
DefaultStorage(n) == [i \in 1..n |-> 0]

\* mutant: the arguments stored from the back
VariadicStorage_Reversed(n, args) ==
  [i \in 1..n |-> IF i <= Len(args) THEN args[Len(args) + 1 - i] ELSE 0]

\* mutant: only the supplied values are stored, no value-initialised rest
VariadicStorage_NoPad(n, args) == args

\* data_{std::forward<Args>(args)...} : the arguments, then value-initialised
VariadicStorage(n, args) ==
  [i \in 1..n |-> IF i <= Len(args) THEN args[i] ELSE 0]

\* mutant: a move that leaves the source element as it was
MovedFrom_Kept(t, v) == v

\* the value an element is left with after it has been moved from: an int
\* keeps its value, a SafeTestClass has value_ reset to 0
MovedFrom(t, v) == IF t = "SafeTestClass" THEN 0 ELSE v

\* data_ of a container every element of which has been moved from
MovedFromAll(t, d) == [i \in 1..Len(d) |-> MovedFrom(t, d[i])]

\* the variadic constructor's enable_if, for arguments of type int
VariadicEnabled(n, args) == Len(args) <= n

\* --------------------------------------------- constructor selection
\* An argument of a constructor call, as the constructors' constraints see
\* it: whether its decayed type is an ara::core::Array (isArray), whether
\* that type is the constructed Array<T, N> itself (same), whether it is
\* convertible to T (conv), whether T can be list-initialised from it
\* without narrowing (brace), and its value category (cat).
Arg(kind, isArray, same, conv, brace, cat) ==
  [kind |-> kind, isArray |-> isArray, same |-> same, conv |-> conv,
   brace |-> brace, cat |-> cat]

ValueCategories == {"lvalue", "const_lvalue", "rvalue", "const_rvalue"}

\* the container being copied or moved from: an Array<T, N>
SameArrayArg(cat) == Arg("Array<T,N>", TRUE, TRUE, FALSE, FALSE, cat)

\* the arguments a program may hand to the constructor of Array<t, N>:
\* a value of type t; a value of another type (int to int-like t, double to
\* int: convertible but narrowing, std::string to int: not convertible, int
\* to SafeTestClass: its constructor is explicit, int to the element type
\* Array<int, 2>: convertible through its own constructor); the container
\* type itself in each value category; a container of another size
ArgKinds(t) ==
  (CASE t = "int" ->
          { Arg("int", FALSE, FALSE, TRUE, TRUE, "rvalue"),
            Arg("double", FALSE, FALSE, TRUE, FALSE, "rvalue"),
            Arg("std::string", FALSE, FALSE, FALSE, FALSE, "rvalue") }
     [] t = "SafeTestClass" ->
          { Arg("SafeTestClass", FALSE, FALSE, TRUE, TRUE, "rvalue"),
            Arg("int", FALSE, FALSE, FALSE, FALSE, "rvalue") }
     [] t = "Array<int,2>" ->
          { Arg("Array<int,2>", TRUE, FALSE, TRUE, TRUE, "lvalue"),
            Arg("int", FALSE, FALSE, TRUE, TRUE, "rvalue") })
  \cup { SameArrayArg(cat) : cat \in ValueCategories }
  \cup { Arg("Array<T,N+1>", TRUE, FALSE, FALSE, FALSE, "lvalue") }

\* detail::is_single_same_array_v<Args...>: exactly one argument, whose
\* decayed type is any ara::core::Array<U, M>
is_single_same_array_v(args) == Len(args) = 1 /\ args[1].isArray

\* std::conjunction_v<std::is_convertible<Args, T>...>
AllConvertible(args) == \A i \in 1..Len(args) : args[i].conv

\* detail::is_brace_initializable_array<T, N, Args...>::value: whether
\* T[N]{args...} is well-formed (an empty list is for every N, zero-length
\* arrays being accepted by the compilers of the two supported platforms)
is_brace_initializable_array(n, args) ==
  /\ Len(args) <= n
  /\ \A i \in 1..Len(args) : args[i].brace

\* mutant: the variadic constructor without its narrowing condition
VariadicCtorEnabled_NoBraceCheck(n, args) ==
  /\ Len(args) <= n
  /\ AllConvertible(args)
  /\ ~is_single_same_array_v(args)

\* the enable_if of the variadic constructor
VariadicCtorEnabled(n, args) ==
  /\ Len(args) <= n
  /\ AllConvertible(args)
  /\ is_brace_initializable_array(n, args)
  /\ ~is_single_same_array_v(args)

\* the enable_if of the rejecting constructor
RejectingCtorEnabled(n, args) ==
  \/ Len(args) > n
  \/ /\ ~is_single_same_array_v(args)
     /\ (~AllConvertible(args) \/ ~is_brace_initializable_array(n, args))

\* the constructor template overload resolution can use for these arguments
\* (the two templates differ by a defaulted template parameter)
TemplateCandidate(n, args) ==
  CASE VariadicCtorEnabled(n, args) /\ RejectingCtorEnabled(n, args) -> "ambiguous"
    [] VariadicCtorEnabled(n, args) /\ ~RejectingCtorEnabled(n, args) -> "variadic"
    [] ~VariadicCtorEnabled(n, args) /\ RejectingCtorEnabled(n, args) -> "rejecting"
    [] OTHER -> "none"

\* overload resolution among Array(), Array(const Array&), Array(Array&&) and
\* the constructor templates Array(Args&&...).  A template binds every
\* argument exactly; a non-template constructor wins a tie.  Array(const
\* Array&) ties with the template for a const lvalue and loses to it for a
\* non-const lvalue and for a const rvalue; Array(Array&&) ties for a
\* non-const rvalue.  "none": no matching constructor.
SelectConstructor(n, args) ==
  IF Len(args) = 0 THEN "default"
  ELSE IF Len(args) = 1 /\ args[1].same
  THEN CASE args[1].cat = "rvalue" -> "move"
         [] args[1].cat = "const_lvalue" -> "copy"
         [] OTHER -> IF TemplateCandidate(n, args) = "none" THEN "copy"
                     ELSE TemplateCandidate(n, args)
  ELSE TemplateCandidate(n, args)

\* mutant: a rejecting constructor whose static_asserts let the call through
Compiles_RejectingPasses(selected) ==
  selected \in {"default", "copy", "move", "variadic", "swap", "rejecting"}

\* whether a call resolved to `selected` compiles: the rejecting
\* constructor's body is three static_asserts, of which the failing
\* constraint fails, and the mismatched swap's body is two of them; no
\* matching or an ambiguous function is an error as well
Compiles(selected) ==
  selected \in {"default", "copy", "move", "variadic", "swap"}

\* a container of another type than the Array<T, N> at hand: the same element
\* type and another size M # N (M or N may be 0), another element type U,
\* or both
OtherArrays ==
  { [sameT |-> TRUE, sameN |-> FALSE, kind |-> "Array<T,M>"],
    [sameT |-> FALSE, sameN |-> TRUE, kind |-> "Array<U,N>"],
    [sameT |-> FALSE, sameN |-> FALSE, kind |-> "Array<U,M>"] }

OtherArrayArg(o, cat) == Arg(o.kind, TRUE, FALSE, FALSE, FALSE, cat)

\* x = arg, with x an Array<T, N> and arg of another type: operator=(const
\* Array&) and operator=(Array&&) take part only if arg converts to
\* Array<T, N>, that is if a constructor template accepts it alone
SelectAssignment(n, arg) == TemplateCandidate(n, <<arg>>)

\* x.swap(y) with y of another type: Array& does not bind to it
SelectMemberSwap(o) == IF o.sameT /\ o.sameN THEN "swap" ELSE "none"

\* swap(x, y): swap(Array<T,N>&, Array<T,N>&) is deduced only for one type,
\* swap(Array<T,N>&, Array<U,M>&) is enabled for every other pair and its
\* static_asserts (same T, same N) then fail
SelectSwap(o) == IF o.sameT /\ o.sameN THEN "swap" ELSE "rejecting"

\* -------------------------------------------- instantiation of a member
\* whether the body of the operation can be instantiated for capacity n:
\* at, operator[], swap name this->data_ outside any `if constexpr`;
\* operator== and operator!= call operator[]; front and back static_assert
WellFormed(op, n) ==
  CASE op \in {"at", "subscript", "write", "swap", "eq", "ne"} -> HasData(n)
    [] op \in {"front", "back"} -> n > 0
    [] OTHER -> TRUE

\* ------------------------------------------------------------- Array
\* operator[](idx): data_[idx], no bound check
Subscript(d, idx) == d[idx + 1]

\* mutant: the bound check off by one
OutOfRange_OffByOne(idx, n) == idx + 1 >= n

\* the bound check of at(): if (idx >= N)
OutOfRange(idx, n) == idx >= n

\* what at() returns when the check passes: this->data_[idx]
AtElement(d, idx) == d[idx + 1]

\* pointers to elements: the owning container and the offset into data_
nullptr == [base |-> "null", off |-> 0]

\* data(): if constexpr (N > 0) return this->data_; else return nullptr;
Data(id, n) == IF n > 0 THEN [base |-> id, off |-> 0] ELSE nullptr

\* begin(): return data();
Begin(id, n) == Data(id, n)

\* end(): if constexpr (N > 0) return data() + N; else return nullptr;
End(id, n) ==
  IF n > 0 THEN [Data(id, n) EXCEPT !.off = @ + n] ELSE nullptr

\* mutant: front() for back()
Back_AsFront(d, n) == d[1]

\* front(): return this->data_[0];   back(): return this->data_[N - 1];
Front(d) == d[1]
Back(d, n) == d[n]

\* get<I>(arr): return arr[I];
Get(d, i) == Subscript(d, i)

\* *p for a pointer into a live container's elements
Deref(mem, p) == mem[p.base].data[p.off + 1]

\* for (it = first; it != end; ++it) use(*it): the elements visited
RECURSIVE Walk(_, _, _)
Walk(mem, first, end) ==
  IF first = end THEN <<>>
  ELSE <<Deref(mem, first)>> \o Walk(mem, [first EXCEPT !.off = @ + 1], end)

\* mutant: every container's elements in the storage of the first one
StorageOf_Shared(id) == "a"

\* the elements of a container are the member array data_ of its own
\* ArrayStorage base
StorageOf(id) == id

Size(n) == n
MaxSize(n) == n
Empty(n) == (n = 0)

\* mutant: only the first element is assigned
Fill_FirstOnly(d, n, val) == IF n > 0 THEN [d EXCEPT ![1] = val] ELSE d

\* fill(val): if constexpr (N > 0) std::fill_n(data_, N, val)
Fill(d, n, val) == IF n > 0 THEN [i \in 1..n |-> val] ELSE d

\* swap(other): for (i = 0; i < N; ++i) std::swap(data_[i], other.data_[i])
RECURSIVE SwapLoop(_, _, _, _)
SwapLoop(x, y, i, n) ==
  IF i < n
  THEN SwapLoop([x EXCEPT ![i + 1] = y[i + 1]], [y EXCEPT ![i + 1] = x[i + 1]],
                i + 1, n)
  ELSE <<x, y>>

\* operator==: for (i = 0; i < N; ++i) if (!(lhs[i] == rhs[i])) return false;
RECURSIVE EqLoop(_, _, _, _)
EqLoop(l, r, i, n) ==
  IF i < n
  THEN IF ~(Subscript(l, i) = Subscript(r, i)) THEN FALSE
       ELSE EqLoop(l, r, i + 1, n)
  ELSE TRUE

OpEq(l, r, n) == EqLoop(l, r, 0, n)

\* operator!=: return !(lhs == rhs)
OpNe(l, r, n) == ~OpEq(l, r, n)

\* std::lexicographical_compare(first1, last1, first2, last2), with i the
\* distance both iterators have advanced:
\*   for (; first1 != last1 && first2 != last2; ++first1, ++first2) {
\*     if (*first1 < *first2) return true;
\*     if (*first2 < *first1) return false; }
\*   return first1 == last1 && first2 != last2;
RECURSIVE LexicographicalCompare(_, _, _)
LexicographicalCompare(l, r, i) ==
  IF i # Len(l) /\ i # Len(r)
  THEN IF l[i + 1] < r[i + 1] THEN TRUE
       ELSE IF r[i + 1] < l[i + 1] THEN FALSE
       ELSE LexicographicalCompare(l, r, i + 1)
  ELSE i = Len(l) /\ i # Len(r)

\* operator<: lexicographical_compare over [begin, end) of both; begin and
\* end are data() and data() + N (nullptr and nullptr when N == 0)
OpLt(l, r) == LexicographicalCompare(l, r, 0)

\* mutant: <= computed as <
OpLe_Strict(l, r) == OpLt(l, r)

\* operator<=: return !(rhs < lhs)
OpLe(l, r) == ~OpLt(r, l)

\* operator>: return (rhs < lhs)
OpGt(l, r) == OpLt(r, l)

\* operator>=: return !(lhs < rhs)
OpGe(l, r) == ~OpLt(l, r)

\* ------------------------------------------ process-identity provider
\* ara::os::interface::process::ErrorCode
ErrorCodes ==
  {"Success", "BufferTooSmall", "RetrievalFailed", "NullBuffer", "UnknownError"}

\* ProcessFactory::CreateInstance: the implementation of the build's platform
CreateInstance(p) ==
  IF p = "linux" THEN "linux::ProcessInteractionImpl"
  ELSE IF p = "qnx" THEN "qnx::ProcessInteractionImpl"
  ELSE "nullptr"

\* what a call of the virtual GetProcessName(buf, 256) may hand back: the
\* code, and the caller's buffer afterwards (a name on Success; untouched or
\* partly written otherwise)
ProviderResults ==
  { [code |-> "Success", buffer |-> nm] : nm \in ProcNames }
  \cup { [code |-> c, buffer |-> <<>>] : c \in ErrorCodes \ {"Success"} }
  \cup { [code |-> "UnknownError", buffer |-> <<"dem">>] }

\* ------------------------------------------------- GetProcessName
\* characters: two letters, the terminator, and what an unwritten byte of the
\* caller's buffer holds
NUL == "\\0"
Garbage == "?"
Letters == {"d", "e"}

\* the names the system may report (std::getline's line, proc_name's string)
Names == UNION { [1..k -> Letters] : k \in 0..MaxNameLen }

\* the sizes a caller may pass, up to beyond the platform's constant
BufSizes == 0..(PROC_NAME_MAX + 2)

\* an array of n value-initialized chars:  ara::core::Array<char, n> a{}
ZeroChars(n) == [i \in 1..n |-> NUL]

\* std::strlen / the characters of a C string held in mem
RECURSIVE CStr(_)
CStr(mem) ==
  IF mem = <<>> \/ Head(mem) = NUL THEN <<>>
  ELSE <<Head(mem)>> \o CStr(Tail(mem))

\* std::strncpy(dest, src, n): exactly n bytes are written, the characters
\* of src and then NULs; `outside` are the offsets written beyond dest
Strncpy(dest, src, n) ==
  [mem |-> [i \in 1..Len(dest) |->
              IF i <= n THEN (IF i <= Len(src) THEN src[i] ELSE NUL)
              ELSE dest[i]],
   outside |-> {i - 1 : i \in (Len(dest) + 1)..n}]

\* a[idx] = c  on an array or a raw buffer: operator[] does not check
StoreChar(dest, idx, c) ==
  [mem |-> [i \in 1..Len(dest) |-> IF i = idx + 1 THEN c ELSE dest[i]],
   outside |-> IF idx + 1 > Len(dest) THEN {idx} ELSE {}]

\* what a call returns: the code, the caller's buffer afterwards, and the
\* offsets written outside the caller's buffer and outside temp_buffer
NameResult(code, buffer, out, outTemp) ==
  [code |-> code, buffer |-> buffer, outside |-> out, outsideTemp |-> outTemp]

\* what the system does for the call: the path cannot be built, the file
\* cannot be opened / proc_name fails, or the name is read
Retrievals == {"no_path", "no_name", "ok"}

\* mutant: the size test before the name is known is left out
LinuxGetProcessName_NoSizeTest(null, size, buffer, retrieval, name) ==
  IF null THEN NameResult("NullBuffer", buffer, {}, {})
  ELSE IF retrieval # "ok" THEN NameResult("RetrievalFailed", buffer, {}, {})
  ELSE IF name = <<>> THEN NameResult("RetrievalFailed", buffer, {}, {})
  ELSE IF Len(name) + 1 > size
    THEN NameResult("BufferTooSmall", buffer, {}, {})
  ELSE LET cp == Strncpy(buffer, name, size - 1)
           st == StoreChar(cp.mem, size - 1, NUL)
       IN  NameResult("Success", st.mem, cp.outside \cup st.outside, {})

\* linux::ProcessInteractionImpl::GetProcessName(buffer, bufferSize)
LinuxGetProcessName(null, size, buffer, retrieval, name) ==
  IF null THEN NameResult("NullBuffer", buffer, {}, {})
  ELSE IF size = 0 THEN NameResult("BufferTooSmall", buffer, {}, {})
  ELSE IF retrieval # "ok" THEN NameResult("RetrievalFailed", buffer, {}, {})
  ELSE IF name = <<>> THEN NameResult("RetrievalFailed", buffer, {}, {})
  ELSE IF Len(name) + 1 > size
    THEN NameResult("BufferTooSmall", buffer, {}, {})
  ELSE LET cp == Strncpy(buffer, name, size - 1)
           st == StoreChar(cp.mem, size - 1, NUL)
       IN  NameResult("Success", st.mem, cp.outside \cup st.outside, {})

\* qnx::ProcessInteractionImpl::GetProcessName(buffer, bufferSize): the name
\* goes through temp_buffer, an array of PROC_NAME_MAX chars
QnxGetProcessName(null, size, buffer, retrieval, name) ==
  IF null THEN NameResult("NullBuffer", buffer, {}, {})
  ELSE IF retrieval # "ok" THEN NameResult("RetrievalFailed", buffer, {}, {})
  ELSE IF name = <<>> THEN NameResult("RetrievalFailed", buffer, {}, {})
  ELSE IF Len(name) + 1 > size
    THEN NameResult("BufferTooSmall", buffer, {}, {})
  ELSE LET t1 == Strncpy(ZeroChars(PROC_NAME_MAX), name, size - 1)
           t2 == StoreChar(t1.mem, size - 1, NUL)
           cp == Strncpy(buffer, CStr(t2.mem), size - 1)
           st == StoreChar(cp.mem, size - 1, NUL)
       IN  NameResult("Success", st.mem, cp.outside \cup st.outside,
                      t1.outside \cup t2.outside)

\* no call of GetProcessName has been set up
NoCall ==
  [pc |-> "none", null |-> FALSE, size |-> 0, buffer |-> <<>>,
   retrieval |-> "ok", name |-> <<>>, code |-> "none",
   outside |-> {}, outsideTemp |-> {}]

\* a caller about to call GetProcessName(buffer, size): buffer is null or
\* points to size bytes the caller has not initialized
CallOf(null, size, retrieval, name) ==
  [NoCall EXCEPT !.pc = "call", !.null = null, !.size = size,
                 !.buffer = IF null THEN <<>>
                            ELSE [i \in 1..size |-> Garbage],
                 !.retrieval = retrieval, !.name = name]

\* ------------------------------------------------- ViolationHandler
\* mutant: no fallback when the provider fails
GetProcessIdentifier_NoFallback(provider, res) ==
  IF provider # "nullptr" THEN res.buffer ELSE <<"UnsupportedPlatform">>

\* GetProcessIdentifier: the name on Success, a placeholder otherwise
\* (strncpy of the placeholder overwrites the whole buffer)
GetProcessIdentifier(provider, res) ==
  IF provider # "nullptr"
  THEN IF res.code # "Success" THEN <<"UnknownProcess">> ELSE res.buffer
  ELSE <<"UnsupportedPlatform">>

\* the fragments of the stream expression of
\* TriggerArrayAccessOutOfRangeViolation, left to right
ViolationPrefix == Str(<<"[App vlt][FATAL]: Violation detected in ">>)

ViolationRest(ident, location, indexValue, arraySize) ==
  << Str(ident),
     Str(<<" at ">>),
     Str(location),
     Str(<<": Array access out of range: Tried to access ">>),
     Num(indexValue),
     Str(<<" in array of size ">>),
     Num(arraySize),
     Str(<<".", NL>>) >>

\* mutant: the notice without its line end
AbortNotice_NoNewline ==
  Str(<<"FATAL: Process aborted due to a critical violation in ara::core::Array.">>)

\* the line Abort() writes before std::terminate()
AbortNotice ==
  Str(<<"FATAL: Process aborted due to a critical violation in ara::core::Array.",
        NL>>)

\* mutant: termination replaced by a return to the caller
AfterTerminate_Returns == "Normal"

\* std::terminate() ends the process; control never comes back
AfterTerminate == "Terminated"

\* mutant: Abort() called before the diagnostic is streamed
After_AbortFirst(pc) ==
  CASE pc = "Triggered" -> "Aborting"
    [] pc = "Aborting" -> AfterTerminate
    [] OTHER -> pc

\* the control flow of the violation path, from the failed bound check on:
\* the prefix is streamed, the identity is obtained, the rest of the line is
\* streamed, Abort() writes its notice and calls std::terminate()
After(pc) ==
  CASE pc = "Triggered" -> "PrefixEmitted"
    [] pc = "PrefixEmitted" -> "Identified"
    [] pc = "Identified" -> "Emitted"
    [] pc = "Emitted" -> "Aborting"
    [] pc = "Aborting" -> AfterTerminate
    [] OTHER -> pc

\* ------------------------------------------- ViolationHandler::Instance
Threads == 1..MaxThreads

\* `static ViolationHandler instance;` : the object, how many times its
\* constructor has run, and its initialization guard.  ViolationHandler has
\* no data member and a defaulted constructor, so a build may initialize the
\* object statically, before any call ("constant": the guard is done from
\* the start), or on the first pass through the declaration ("guarded").
\* pc[t] is where thread t is inside Instance(); got[t] is what its last call
\* returned: the object's address and whether the object was initialized.
NoRef == [addr |-> "none", object |-> "none"]

InstStart(kind) ==
  [guard |-> IF kind = "constant" THEN "done" ELSE "uninit",
   object |-> IF kind = "constant" THEN "initialized" ELSE "raw",
   ctorRuns |-> 0,
   pc |-> [t \in Threads |-> "idle"],
   got |-> [t \in Threads |-> NoRef]]

\* mutant: a local static without its initialization guard
MayInitialize_Unguarded(guard) == guard # "done"

\* a thread that reaches the declaration initializes the object only if no
\* initialization has started; while another thread's is in progress it waits
MayInitialize(guard) == guard = "uninit"

\* ------------------------------------------------------- DemoManager
\* the threads that call StartManager(); the one that is handed the instance
\* goes on to RunManager(), as main does
Callers == 1..MaxCallers

\* owners of the mutex besides the callers
Free == 0
HandlerThread == 0 - 1

ShutdownSigs == {"SIGTERM", "SIGINT"}

EXIT_SUCCESS == 0

\* the demo process before main has run.
\*   process           "starting" until main has set the signal mask, then
\*                     "running"; "aborted" after std::abort/std::terminate;
\*                     "killed" by the default action of a signal
\*   mutex             owner of DemoManager::mutex_: Free, a caller, HandlerThread
\*   instanceCreated   DemoManager::instanceCreated_
\*   instances         DemoManager objects constructed
\*   handlerThreads    threads started on GracefulShutdownHandler
\*   turnOff           turn_off_requested_
\*   notified          notify_all() calls on shutdown_notifier_
\*   pending           the signal pending for the process, blocked everywhere
\*   received          def_sig after sigwait returned 0
\*   delivered         whether a shutdown signal has been sent to the process
\*   handler           where the handler thread is ("none": not started)
\*   pc, result        where each caller is, what StartManager returned to it
\*   first             the first caller that acquired the mutex in StartManager
\*   joined            whether join() on the handler thread has returned
\*   wake              how the last blocked wait_for ended: "timeout" or
\*                     "notified" (a notification or a spurious wake-up)
\*   exit_code         what RunManager returned (<<>>: it has not)
MgrStart ==
  [process |-> "starting",
   mutex |-> Free,
   instanceCreated |-> FALSE,
   instances |-> 0,
   handlerThreads |-> 0,
   turnOff |-> FALSE,
   notified |-> 0,
   pending |-> "none",
   received |-> "none",
   delivered |-> FALSE,
   handler |-> "none",
   pc |-> [c \in Callers |-> "idle"],
   result |-> [c \in Callers |-> "none"],
   first |-> 0,
   joined |-> FALSE,
   wake |-> "none",
   exit_code |-> <<>>]

\* the predicate of wait_for: [this]() { return turn_off_requested_.load(); }
WaitPredicate(turnOff) == turnOff

\* mutant: StartManager without its instanceCreated_ test
AlreadyCreated_Never(created) == FALSE

\* if (instanceCreated_) return std::nullopt;
AlreadyCreated(created) == created

\* mutant: a handler that requests the shutdown before it waits for a signal
HandlerAfterMask_StoreFirst == "lock"

\* after pthread_sigmask succeeded the handler calls sigwait
HandlerAfterMask == "sigwait"

\* mutant: a handler that goes on to request the shutdown after a failed call
HandlerOnFailure_Continue == "lock"

\* a failed call skips the rest of the nested ifs: success stays false
HandlerOnFailure == "failed"

\* mutant: a join that does not wait for the handler thread to finish
JoinReturns_Early(handler) == TRUE

\* join() returns once the handler thread's function has returned
JoinReturns(handler) == handler = "done"

\* ---------------------------------------------------------- the state
NoVio ==
  [site |-> <<>>, location |-> <<>>, index |-> 0, size |-> 0,
   provider |-> "none", code |-> "none", ident |-> <<>>]

\* the record of one container operation: `out` is "ok", "ref" (a reference
\* to element idx of id), "violation" (the call did not return) or
\* "ill_formed" (the call does not compile for this N)
Op(op, id, other, idx, out, val, flag) ==
  [op |-> op, id |-> id, other |-> other, idx |-> idx, out |-> out,
   val |-> val, flag |-> flag, args |-> <<>>]

NoOp == Op("none", "-", "-", 0, "ok", 0, FALSE)

Dead == [live |-> FALSE, data |-> <<>>]
Obj(d) == [live |-> TRUE, data |-> d]

\* argument lists handed to the constructor of a container of capacity n:
\* up to n values, and one value too many
ArgLists(n) == UNION { [1..k -> Vals] : k \in 0..(n + 1) }

\* the program instantiated for element type t
InitFor(t) ==
  /\ T = t
  /\ inst = InstStart("guarded")
  /\ mgr = MgrStart
  /\ os = NoCall
  /\ N \in Caps
  /\ \E b \in Builds : platform = b.platform /\ file = b.file
  /\ arr = [id \in Ids |-> Dead]
  /\ last = NoOp
  /\ proc = "Normal"
  /\ vio = NoVio
  /\ sink = <<>>

Init == InitFor("int")

InitSafe == InitFor("SafeTestClass")

Quiet == UNCHANGED <<N, T, inst, mgr, os, platform, file, proc, vio, sink>>

\* ----------------------------------------------------- construction
\* Array() = default
DefaultConstruct(id) ==
  /\ proc = "Normal" /\ ~arr[id].live
  /\ arr' = [arr EXCEPT ![id] = Obj(DefaultStorage(N))]
  /\ last' = Op("ctor_default", id, "-", 0, "ok", 0, FALSE)
  /\ Quiet

\* Array(Args&&...) with int arguments: the variadic constructor when its
\* enable_if holds, the rejecting constructor (static_assert) otherwise
VariadicConstruct(id, args) ==
  /\ proc = "Normal" /\ ~arr[id].live /\ Len(args) > 0
  /\ IF VariadicEnabled(N, args)
     THEN /\ arr' = [arr EXCEPT ![id] = Obj(VariadicStorage(N, args))]
          /\ last' = [Op("ctor_values", id, "-", Len(args), "ok", 0, FALSE)
                         EXCEPT !.args = args]
     ELSE /\ arr' = arr
          /\ last' = [Op("ctor_values", id, "-", Len(args), "ill_formed", 0,
                            FALSE) EXCEPT !.args = args]
  /\ Quiet

\* Array<T, N> id(src) with src in value category cat, where overload
\* resolution does not select Array(Array&&): Array(const Array&) = default
\* copies element i from element i of the source, unless a constructor
\* template is selected instead
CopyConstruct(id, src, cat) ==
  /\ proc = "Normal" /\ ~arr[id].live /\ arr[src].live
  /\ SelectConstructor(N, <<SameArrayArg(cat)>>) # "move"
  /\ IF SelectConstructor(N, <<SameArrayArg(cat)>>) = "copy"
     THEN /\ arr' = [arr EXCEPT ![id] = Obj(arr[src].data)]
          /\ last' = Op("ctor_copy", id, src, 0, "ok", 0, FALSE)
     ELSE /\ arr' = arr
          /\ last' = Op("ctor_copy", id, src, 0, "ill_formed", 0, FALSE)
  /\ Quiet

\* Array<T, N> id(std::move(src)): Array(Array&&) = default, element i is
\* move-constructed from element i of the source, for i = 0..N-1
MoveConstruct(id, src) ==
  /\ proc = "Normal" /\ ~arr[id].live /\ arr[src].live
  /\ SelectConstructor(N, <<SameArrayArg("rvalue")>>) = "move"
  /\ arr' = [arr EXCEPT ![id] = Obj(arr[src].data),
                        ![src].data = MovedFromAll(T, arr[src].data)]
  /\ last' = Op("ctor_move", id, src, 0, "ok", 0, FALSE)
  /\ Quiet

\* the implicit destructor, at the end of the object's scope
Destroy(id) ==
  /\ proc = "Normal" /\ arr[id].live
  /\ arr' = [arr EXCEPT ![id] = Dead]
  /\ last' = Op("dtor", id, "-", 0, "ok", 0, FALSE)
  /\ Quiet

\* mutant: copy assignment that treats its source as movable
CopyAssign_AsMove(id, src) ==
  /\ proc = "Normal" /\ arr[id].live /\ arr[src].live
  /\ arr' = IF id = src THEN arr
            ELSE [arr EXCEPT ![id] = Obj(arr[src].data),
                             ![src].data = MovedFromAll(T, arr[src].data)]
  /\ last' = Op("assign_copy", id, src, 0, "ok", 0, FALSE)
  /\ Quiet

\* operator=(const Array&) = default: element i is copy-assigned from element
\* i of the source
CopyAssign(id, src) ==
  /\ proc = "Normal" /\ arr[id].live /\ arr[src].live
  /\ arr' = [arr EXCEPT ![id] = Obj(arr[src].data)]
  /\ last' = Op("assign_copy", id, src, 0, "ok", 0, FALSE)
  /\ Quiet

\* operator=(Array&&) = default: element i is move-assigned from element i
\* of the source; on self-assignment every element is move-assigned from
\* itself (a no-op for int, and for SafeTestClass by its this != &other test)
MoveAssign(id, src) ==
  /\ proc = "Normal" /\ arr[id].live /\ arr[src].live
  /\ arr' = IF id = src THEN arr
            ELSE [arr EXCEPT ![id] = Obj(arr[src].data),
                             ![src].data = MovedFromAll(T, arr[src].data)]
  /\ last' = Op("assign_move", id, src, 0, "ok", 0, FALSE)
  /\ Quiet

\* ------------------------------------------------------ element access
\* x = c[idx] for an index in range (any other index is undefined behaviour
\* and is not a call the program makes)
ReadSubscript(id, idx) ==
  /\ proc = "Normal" /\ arr[id].live
  /\ IF ~WellFormed("subscript", N)
     THEN last' = Op("subscript", id, "-", idx, "ill_formed", 0, FALSE)
     ELSE /\ idx < N
          /\ last' = Op("subscript", id, "-", idx, "ref",
                        Subscript(arr[id].data, idx), FALSE)
  /\ UNCHANGED arr
  /\ Quiet

\* c[idx] = v for an index in range
WriteSubscript(id, idx, v) ==
  /\ proc = "Normal" /\ arr[id].live
  /\ IF ~WellFormed("write", N)
     THEN /\ arr' = arr
          /\ last' = Op("write", id, "-", idx, "ill_formed", 0, FALSE)
     ELSE /\ idx < N
          /\ arr' = [arr EXCEPT ![StorageOf(id)].data[idx + 1] = v]
          /\ last' = Op("write", id, "-", idx, "ref", v, FALSE)
  /\ Quiet

\* c.at(idx), mutable (array.h:395) or const (array.h:416), at the call
\* site `call`.  A failed bound check calls TriggerOutOfRangeViolation, which
\* takes the ViolationHandler instance and calls
\* TriggerArrayAccessOutOfRangeViolation(location, idx, N): [[noreturn]]
At(id, idx, call) ==
  /\ proc = "Normal" /\ arr[id].live
  /\ IF ~WellFormed("at", N)
     THEN /\ last' = Op("at", id, "-", idx, "ill_formed", 0, call.isConst)
          /\ UNCHANGED <<proc, vio>>
     ELSE IF OutOfRange(idx, N)
     THEN /\ last' = Op("at", id, "-", idx, "violation", 0, call.isConst)
          /\ proc' = "Triggered"
          /\ vio' = [NoVio EXCEPT
                       !.site = call.where,
                       !.location = FILELINE(file, AtLine(call.isConst)),
                       !.index = idx,
                       !.size = N]
     ELSE /\ last' = Op("at", id, "-", idx, "ref",
                        AtElement(arr[id].data, idx), call.isConst)
          /\ UNCHANGED <<proc, vio>>
  /\ UNCHANGED <<N, T, inst, mgr, os, platform, file, arr, sink>>

\* ----------------------------------------------------------- capacity
QuerySize(id) ==
  /\ proc = "Normal" /\ arr[id].live
  /\ last' = Op("size", id, "-", MaxSize(N), "ok", Size(N), Empty(N))
  /\ UNCHANGED arr
  /\ Quiet

\* p = c.data(): `flag` records p == nullptr
QueryData(id) ==
  /\ proc = "Normal" /\ arr[id].live
  /\ last' = Op("data", id, "-", Data(id, N).off, "ok", 0,
                Data(id, N) = nullptr)
  /\ UNCHANGED arr
  /\ Quiet

\* c.begin() and c.end(): `flag` records begin() == end(), `idx` the
\* distance end() - begin()
QueryRange(id) ==
  /\ proc = "Normal" /\ arr[id].live
  /\ last' = Op("range", id, "-", End(id, N).off - Begin(id, N).off, "ok", 0,
                Begin(id, N) = End(id, N))
  /\ UNCHANGED arr
  /\ Quiet

\* ------------------------------------------------------- fill and swap
DoFill(id, v) ==
  /\ proc = "Normal" /\ arr[id].live
  /\ arr' = [arr EXCEPT ![StorageOf(id)].data = Fill(arr[id].data, N, v)]
  /\ last' = Op("fill", id, "-", 0, "ok", v, FALSE)
  /\ Quiet

\* mutant: only the left container receives the other's elements
DoSwap_OneWay(x, y, nonMember) ==
  /\ proc = "Normal" /\ arr[x].live /\ arr[y].live
  /\ IF ~WellFormed("swap", N)
     THEN /\ arr' = arr
          /\ last' = Op("swap", x, y, 0, "ill_formed", 0, nonMember)
     ELSE /\ arr' = [arr EXCEPT ![x].data = arr[y].data]
          /\ last' = Op("swap", x, y, 0, "ok", 0, nonMember)
  /\ Quiet

\* x.swap(y), or the non-member swap(x, y), whose body is lhs.swap(rhs)
DoSwap(x, y, nonMember) ==
  /\ proc = "Normal" /\ arr[x].live /\ arr[y].live
  /\ IF ~WellFormed("swap", N)
     THEN /\ arr' = arr
          /\ last' = Op("swap", x, y, 0, "ill_formed", 0, nonMember)
     ELSE LET r == SwapLoop(arr[x].data, arr[y].data, 0, N)
          IN  /\ arr' = [arr EXCEPT ![StorageOf(x)].data = r[1],
                                     ![StorageOf(y)].data = r[2]]
              /\ last' = Op("swap", x, y, 0, "ok", 0, nonMember)
  /\ Quiet

\* --------------------------------------------------------- comparison
\* x == y, x != y, x < y, x <= y, x > y, x >= y
CompareOps == {"eq", "ne", "lt", "le", "gt", "ge"}

Compare(op, x, y) ==
  /\ proc = "Normal" /\ arr[x].live /\ arr[y].live
  /\ IF ~WellFormed(op, N)
     THEN last' = Op(op, x, y, 0, "ill_formed", 0, FALSE)
     ELSE last' = Op(op, x, y, 0, "ok", 0,
                     CASE op = "eq" -> OpEq(arr[x].data, arr[y].data, N)
                       [] op = "ne" -> OpNe(arr[x].data, arr[y].data, N)
                       [] op = "lt" -> OpLt(arr[x].data, arr[y].data)
                       [] op = "le" -> OpLe(arr[x].data, arr[y].data)
                       [] op = "gt" -> OpGt(arr[x].data, arr[y].data)
                       [] op = "ge" -> OpGe(arr[x].data, arr[y].data))
  /\ UNCHANGED arr
  /\ Quiet

\* ----------------------------------------------------- violation path
\* TriggerArrayAccessOutOfRangeViolation evaluates
\*   std::cerr << prefix << GetProcessIdentifier() << " at " << ... << ".\n"
\* left operand first: the prefix is written before the identity is asked for
EmitPrefix ==
  /\ proc = "Triggered"
  /\ sink' = Append(sink, ViolationPrefix)
  /\ proc' = After(proc)
  /\ UNCHANGED <<N, T, inst, mgr, os, platform, file, arr, last, vio>>

\* GetProcessIdentifier(): create the provider, ask it, fall back
AcquireIdentity ==
  /\ proc = "PrefixEmitted"
  /\ LET provider == CreateInstance(platform)
     IN  \E res \in ProviderResults :
           vio' = [vio EXCEPT
                     !.provider = provider,
                     !.code = IF provider = "nullptr" THEN "none" ELSE res.code,
                     !.ident = GetProcessIdentifier(provider, res)]
  /\ proc' = After(proc)
  /\ UNCHANGED <<N, T, inst, mgr, os, platform, file, arr, last, sink>>

\* the rest of the stream expression
EmitRest ==
  /\ proc = "Identified"
  /\ sink' = sink \o ViolationRest(vio.ident, vio.location, vio.index, vio.size)
  /\ proc' = After(proc)
  /\ UNCHANGED <<N, T, inst, mgr, os, platform, file, arr, last, vio>>

\* Abort(): the notice ...
AbortNoticeStep ==
  /\ proc = "Emitted"
  /\ sink' = Append(sink, AbortNotice)
  /\ proc' = After(proc)
  /\ UNCHANGED <<N, T, inst, mgr, os, platform, file, arr, last, vio>>

\* ... then std::terminate()
Terminate ==
  /\ proc = "Aborting"
  /\ proc' = After(proc)
  /\ UNCHANGED <<N, T, inst, mgr, os, platform, file, arr, last, vio, sink>>

ViolationStep ==
  \/ EmitPrefix
  \/ AcquireIdentity
  \/ EmitRest
  \/ AbortNoticeStep
  \/ Terminate

Next ==
  \/ \E id \in Ids : DefaultConstruct(id)
  \/ \E id \in Ids, args \in ArgLists(N) : VariadicConstruct(id, args)
  \/ \E id \in Ids, src \in Ids, cat \in ValueCategories :
       CopyConstruct(id, src, cat)
  \/ \E id \in Ids, src \in Ids : MoveConstruct(id, src)
  \/ \E id \in Ids : Destroy(id)
  \/ \E id \in Ids, src \in Ids : CopyAssign(id, src)
  \/ \E id \in Ids, src \in Ids : MoveAssign(id, src)
  \/ \E id \in Ids, idx \in Indices(N) : ReadSubscript(id, idx)
  \/ \E id \in Ids, idx \in Indices(N), v \in Vals : WriteSubscript(id, idx, v)
  \/ \E id \in Ids, idx \in Indices(N), call \in CallSites : At(id, idx, call)
  \/ \E id \in Ids : QuerySize(id)
  \/ \E id \in Ids : QueryData(id)
  \/ \E id \in Ids : QueryRange(id)
  \/ \E id \in Ids, v \in Vals : DoFill(id, v)
  \/ \E x \in Ids, y \in Ids, nonMember \in BOOLEAN : DoSwap(x, y, nonMember)
  \/ \E op \in CompareOps, x \in Ids, y \in Ids : Compare(op, x, y)
  \/ EmitPrefix
  \/ AcquireIdentity
  \/ EmitRest
  \/ AbortNoticeStep
  \/ Terminate

Spec == Init /\ [][Next]_vars

\* the same program with SafeTestClass elements
SafeSpec == InitSafe /\ [][Next]_vars

\* ------------------------------------ every operation, and a bystander
\* c.front() / c.back(): static_assert(N > 0)
CallFront(id) ==
  /\ proc = "Normal" /\ arr[id].live
  /\ last' = IF WellFormed("front", N)
             THEN Op("front", id, "-", 0, "ref", Front(arr[id].data), FALSE)
             ELSE Op("front", id, "-", 0, "ill_formed", 0, FALSE)
  /\ UNCHANGED arr
  /\ Quiet

CallBack(id) ==
  /\ proc = "Normal" /\ arr[id].live
  /\ last' = IF WellFormed("back", N)
             THEN Op("back", id, "-", N - 1, "ref", Back(arr[id].data, N),
                     FALSE)
             ELSE Op("back", id, "-", 0, "ill_formed", 0, FALSE)
  /\ UNCHANGED arr
  /\ Quiet

\* get<I>(c): static_assert(I < N)
CallGet(id, i) ==
  /\ proc = "Normal" /\ arr[id].live
  /\ last' = IF i < N
             THEN Op("get", id, "-", i, "ref", Get(arr[id].data, i), FALSE)
             ELSE Op("get", id, "-", i, "ill_formed", 0, FALSE)
  /\ UNCHANGED arr
  /\ Quiet

\* for (auto it = c.begin(); it != c.end(); ++it): `args` are the elements
\* visited, in the order visited
Iterate(id) ==
  /\ proc = "Normal" /\ arr[id].live
  /\ LET visited == Walk(arr, Begin(id, N), End(id, N))
     IN  last' = [Op("iterate", id, "-", Len(visited), "ok", 0, FALSE)
                    EXCEPT !.args = visited]
  /\ UNCHANGED arr
  /\ Quiet

\* a third container that no operation names:  Array<int, N> c{MaxVal}
Bystander == "c"

BystanderStorage(n) ==
  IF n > 0 THEN VariadicStorage(n, <<MaxVal>>) ELSE DefaultStorage(n)

InitAccess ==
  /\ T = "int"
  /\ inst = InstStart("guarded")
  /\ mgr = MgrStart
  /\ os = NoCall
  /\ N \in Caps
  /\ \E b \in Builds : platform = b.platform /\ file = b.file
  /\ arr = [id \in Ids \cup {Bystander} |->
              IF id = Bystander THEN Obj(BystanderStorage(N)) ELSE Dead]
  /\ last = NoOp
  /\ proc = "Normal"
  /\ vio = NoVio
  /\ sink = <<>>

AccessNext ==
  \/ Next
  \/ \E id \in Ids : CallFront(id)
  \/ \E id \in Ids : CallBack(id)
  \/ \E id \in Ids, i \in Indices(N) : CallGet(id, i)
  \/ \E id \in Ids : Iterate(id)

AccessSpec == InitAccess /\ [][AccessNext]_vars

\* ------------------------------------ concurrent calls of Instance()
\* thread t calls ViolationHandler::Instance()
CallInstance(t) ==
  /\ inst.pc[t] = "idle"
  /\ inst' = [inst EXCEPT !.pc[t] = "declaration"]
  /\ UNCHANGED <<N, T, mgr, os, platform, file, arr, last, proc, vio, sink>>

\* t reaches `static ViolationHandler instance;`: it passes if the object is
\* initialized, starts the initialization if none has started, and waits
\* otherwise
ReachDeclaration(t) ==
  /\ inst.pc[t] = "declaration"
  /\ \/ /\ inst.guard = "done"
        /\ inst' = [inst EXCEPT !.pc[t] = "return"]
     \/ /\ MayInitialize(inst.guard)
        /\ inst' = [inst EXCEPT !.pc[t] = "construct", !.guard = "running"]
  /\ UNCHANGED <<N, T, mgr, os, platform, file, arr, last, proc, vio, sink>>

\* t runs ViolationHandler() on the object
ConstructInstance(t) ==
  /\ inst.pc[t] = "construct"
  /\ inst' = [inst EXCEPT !.pc[t] = "release",
                          !.object = "initialized",
                          !.ctorRuns = @ + 1]
  /\ UNCHANGED <<N, T, mgr, os, platform, file, arr, last, proc, vio, sink>>

\* t marks the initialization complete; waiting threads may pass
ReleaseGuard(t) ==
  /\ inst.pc[t] = "release"
  /\ inst' = [inst EXCEPT !.pc[t] = "return", !.guard = "done"]
  /\ UNCHANGED <<N, T, mgr, os, platform, file, arr, last, proc, vio, sink>>

\* return instance;
ReturnInstance(t) ==
  /\ inst.pc[t] = "return"
  /\ inst' = [inst EXCEPT !.pc[t] = "idle",
                          !.got[t] = [addr |-> "&instance",
                                      object |-> inst.object]]
  /\ UNCHANGED <<N, T, mgr, os, platform, file, arr, last, proc, vio, sink>>

InitInstance ==
  /\ T = "int"
  /\ mgr = MgrStart
  /\ os = NoCall
  /\ \E kind \in {"constant", "guarded"} : inst = InstStart(kind)
  /\ N \in Caps
  /\ \E b \in Builds : platform = b.platform /\ file = b.file
  /\ arr = [id \in Ids |-> Dead]
  /\ last = NoOp
  /\ proc = "Normal"
  /\ vio = NoVio
  /\ sink = <<>>

InstanceNext ==
  \/ \E t \in Threads : CallInstance(t)
  \/ \E t \in Threads : ReachDeclaration(t)
  \/ \E t \in Threads : ConstructInstance(t)
  \/ \E t \in Threads : ReleaseGuard(t)
  \/ \E t \in Threads : ReturnInstance(t)

InstanceSpec == InitInstance /\ [][InstanceNext]_vars

\* ------------------------------------------- constructor selection alone
\* element types for which a constructor call is resolved: the two above and
\* a container as element type
CtorElemTypes == ElemTypes \cup {"Array<int,2>"}

\* argument lists of a constructor call of Array<t, n>: up to n arguments,
\* and one too many
Shapes(t, n) == UNION { [1..k -> ArgKinds(t)] : k \in 0..(n + 1) }

InitCtor == \E t \in CtorElemTypes : InitFor(t)

\* the one declaration of the translation unit,  Array<T, N> a(args...),  is
\* compiled: `out` records the constructor selected, `flag` whether the
\* declaration compiles (only then is there an object)
Declare(args) ==
  /\ proc = "Normal" /\ last = NoOp
  /\ last' = [Op("declare", "a", "-", Len(args),
                 SelectConstructor(N, args), 0,
                 Compiles(SelectConstructor(N, args)))
                EXCEPT !.args = args]
  /\ UNCHANGED arr
  /\ Quiet

\* the operations between two containers
PairOps ==
  {"ctor_copy", "ctor_move", "assign_copy", "assign_move", "swap_member",
   "swap"}

\* the one statement of the translation unit applies `op` to an Array<T, N>
\* and a container o of another type, in value category cat
Mismatched(op, o, cat) ==
  /\ proc = "Normal" /\ last = NoOp
  /\ op \in {"ctor_move", "assign_move"} => cat = "rvalue"
  /\ op \in {"ctor_copy", "assign_copy"} => cat # "rvalue"
  /\ op \in {"swap_member", "swap"} => cat = "lvalue"
  /\ LET selected ==
           CASE op \in {"ctor_copy", "ctor_move"} ->
                  SelectConstructor(N, <<OtherArrayArg(o, cat)>>)
             [] op \in {"assign_copy", "assign_move"} ->
                  SelectAssignment(N, OtherArrayArg(o, cat))
             [] op = "swap_member" -> SelectMemberSwap(o)
             [] op = "swap" -> SelectSwap(o)
     IN  last' = [Op(op, "a", o.kind, 1, selected, 0, Compiles(selected))
                    EXCEPT !.args = <<OtherArrayArg(o, cat)>>]
  /\ UNCHANGED arr
  /\ Quiet

CtorNext ==
  \/ \E args \in Shapes(T, N) : Declare(args)
  \/ \E op \in PairOps, o \in OtherArrays, cat \in ValueCategories :
       Mismatched(op, o, cat)

CtorSpec == InitCtor /\ [][CtorNext]_vars

\* the violation path is straight-line code of the one running thread: once
\* entered, each of its steps is eventually taken
FairSpec == Spec /\ WF_vars(ViolationStep)

\* ------------------------------------------------- name retrieval alone
\* the call returns. A write outside an array is undefined behaviour: the
\* call may return what the code computed, or the process may crash
GetProcessName(outcome) ==
  /\ os.pc = "call"
  /\ LET r == IF platform = "linux"
              THEN LinuxGetProcessName(os.null, os.size, os.buffer,
                                       os.retrieval, os.name)
              ELSE QnxGetProcessName(os.null, os.size, os.buffer,
                                     os.retrieval, os.name)
     IN  /\ outcome = "crash" => r.outside \cup r.outsideTemp # {}
         /\ os' = [os EXCEPT
                     !.pc = "done",
                     !.code = IF outcome = "crash" THEN "crash" ELSE r.code,
                     !.buffer = r.buffer,
                     !.outside = r.outside,
                     !.outsideTemp = r.outsideTemp]
  /\ UNCHANGED <<N, T, inst, mgr, platform, file, arr, last, proc, vio, sink>>

\* every caller buffer, size, system behaviour and name, on both platforms;
\* proc_name stores the name with its terminator in PROC_NAME_MAX chars
InitName ==
  /\ T = "int"
  /\ inst = InstStart("guarded")
  /\ mgr = MgrStart
  /\ N = MaxN
  /\ \E b \in Builds : platform = b.platform /\ file = b.file
  /\ \E null \in BOOLEAN, size \in BufSizes, retrieval \in Retrievals,
        name \in Names :
       /\ platform = "qnx" => Len(name) < PROC_NAME_MAX
       /\ os = CallOf(null, size, retrieval, name)
  /\ arr = [id \in Ids |-> Dead]
  /\ last = NoOp
  /\ proc = "Normal"
  /\ vio = NoVio
  /\ sink = <<>>

NameNext == \E outcome \in {"returns", "crash"} : GetProcessName(outcome)

NameSpec == InitName /\ [][NameNext]_vars

\* ------------------------------------------------- the demo application
MgrQuiet == UNCHANGED <<N, T, inst, os, platform, file, arr, last, proc, vio, sink>>

Alive == mgr.process = "running"

\* main's InitilizeSigHandlerMask(): every signal but the critical ones is
\* blocked for the main thread and the threads it starts; `failed` names the
\* call that returned non-zero ("none": all succeeded)
InitilizeSigHandlerMask(failed) ==
  /\ mgr.process = "starting"
  /\ mgr' = [mgr EXCEPT
               !.process = IF failed = "none" THEN "running" ELSE "aborted"]
  /\ MgrQuiet

\* a shutdown signal is sent to the process: before the mask is set its
\* default action ends the process, afterwards it stays pending (a standard
\* signal already pending is not queued twice)
Deliver(sig) ==
  /\ mgr.process \in {"starting", "running"}
  /\ IF mgr.process = "starting"
       THEN mgr' = [mgr EXCEPT !.process = "killed"]
       ELSE mgr' = [mgr EXCEPT
                     !.pending = IF @ = "none" THEN sig ELSE @,
                     !.delivered = TRUE]
  /\ MgrQuiet

\* StartManager(), std::lock_guard<std::mutex> lock(mutex_)
StartLock(c) ==
  /\ Alive
  /\ mgr.pc[c] = "idle"
  /\ mgr.mutex = Free
  /\ mgr' = [mgr EXCEPT !.mutex = c,
                        !.pc[c] = "check",
                        !.first = IF @ = 0 THEN c ELSE @]
  /\ MgrQuiet

\* if (instanceCreated_) return std::nullopt;  the lock is released on return
StartCheck(c) ==
  /\ Alive
  /\ mgr.pc[c] = "check"
  /\ IF AlreadyCreated(mgr.instanceCreated)
       THEN mgr' = [mgr EXCEPT !.pc[c] = "idle",
                             !.result[c] = "nullopt",
                             !.mutex = Free]
       ELSE mgr' = [mgr EXCEPT !.pc[c] = "construct"]
  /\ MgrQuiet

\* static DemoManager instance;  the constructor runs InitializeDemoManager,
\* which starts the handler thread. std::thread's constructor throws when no
\* thread can be started, and the constructor is noexcept: the process ends
StartConstruct(c, started) ==
  /\ Alive
  /\ mgr.pc[c] = "construct"
  /\ IF started
       THEN mgr' = [mgr EXCEPT !.pc[c] = "created",
                             !.instances = @ + 1,
                             !.handlerThreads = @ + 1,
                             !.handler = "sigemptyset"]
       ELSE mgr' = [mgr EXCEPT !.process = "aborted"]
  /\ MgrQuiet

\* instanceCreated_ = true; return std::ref(instance);
StartReturn(c) ==
  /\ Alive
  /\ mgr.pc[c] = "created"
  /\ mgr' = [mgr EXCEPT !.pc[c] = "run",
                        !.instanceCreated = TRUE,
                        !.result[c] = "instance",
                        !.mutex = Free]
  /\ MgrQuiet

\* the calls of GracefulShutdownHandler before it waits, in order
SetupSteps ==
  <<"sigemptyset", "sigaddset_SIGTERM", "sigaddset_SIGINT", "pthread_sigmask">>

AfterSetup(pc) ==
  CASE pc = "sigemptyset" -> "sigaddset_SIGTERM"
    [] pc = "sigaddset_SIGTERM" -> "sigaddset_SIGINT"
    [] pc = "sigaddset_SIGINT" -> "pthread_sigmask"
    [] pc = "pthread_sigmask" -> HandlerAfterMask

\* one of the set-up calls returns: 0 (ok) or not; after a failure nothing
\* but the final test of `success` is left
HandlerSetup(ok) ==
  /\ Alive
  /\ mgr.handler \in {SetupSteps[i] : i \in 1..Len(SetupSteps)}
  /\ mgr' = [mgr EXCEPT
               !.handler = IF ok THEN AfterSetup(@) ELSE HandlerOnFailure]
  /\ MgrQuiet

\* sigwait(&singals, &def_sig): returns 0 with a pending signal of the set,
\* which it consumes, or returns an error
HandlerSigwait(ok) ==
  /\ Alive
  /\ mgr.handler = "sigwait"
  /\ IF ok
       THEN /\ mgr.pending \in ShutdownSigs
            /\ mgr' = [mgr EXCEPT !.handler = "lock",
                                  !.received = mgr.pending,
                                  !.pending = "none"]
       ELSE mgr' = [mgr EXCEPT !.handler = HandlerOnFailure]
  /\ MgrQuiet

\* std::lock_guard<std::mutex> lock(mutex_);  in the handler
HandlerLock ==
  /\ Alive
  /\ mgr.handler = "lock"
  /\ mgr.mutex = Free
  /\ mgr' = [mgr EXCEPT !.mutex = HandlerThread, !.handler = "store"]
  /\ MgrQuiet

\* turn_off_requested_.store(true);
HandlerStore ==
  /\ Alive
  /\ mgr.handler = "store"
  /\ mgr' = [mgr EXCEPT !.turnOff = TRUE, !.handler = "notify"]
  /\ MgrQuiet

\* shutdown_notifier_.notify_all(); success = true;
HandlerNotify ==
  /\ Alive
  /\ mgr.handler = "notify"
  /\ mgr' = [mgr EXCEPT !.notified = 1, !.handler = "unlock"]
  /\ MgrQuiet

\* the lock_guard goes out of scope
HandlerUnlock ==
  /\ Alive
  /\ mgr.handler = "unlock"
  /\ mgr' = [mgr EXCEPT !.mutex = Free, !.handler = "exit"]
  /\ MgrQuiet

\* success is true: the function returns and the thread finishes
HandlerExit ==
  /\ Alive
  /\ mgr.handler = "exit"
  /\ mgr' = [mgr EXCEPT !.handler = "done"]
  /\ MgrQuiet

\* if (!success) { ... std::abort(); }
HandlerAbort ==
  /\ Alive
  /\ mgr.handler = "failed"
  /\ mgr' = [mgr EXCEPT !.process = "aborted"]
  /\ MgrQuiet

\* RunManager(), std::unique_lock<std::mutex> lock(mutex_): held until the
\* function returns, except inside wait_for
RunLock(c) ==
  /\ Alive
  /\ mgr.pc[c] = "run"
  /\ mgr.mutex = Free
  /\ mgr' = [mgr EXCEPT !.mutex = c, !.pc[c] = "getschedparam"]
  /\ MgrQuiet

\* pthread_getschedparam: a failure aborts the process
RunGetSchedParam(c, ok) ==
  /\ Alive
  /\ mgr.pc[c] = "getschedparam"
  /\ mgr' = IF ok THEN [mgr EXCEPT !.pc[c] = "body"]
                  ELSE [mgr EXCEPT !.process = "aborted"]
  /\ MgrQuiet

\* one cycle's work and the computation of remaining_time, which is
\* positive or not
RunBody(c, remaining) ==
  /\ Alive
  /\ mgr.pc[c] = "body"
  /\ mgr' = [mgr EXCEPT
               !.pc[c] = IF remaining = "positive" THEN "wait_for"
                                                   ELSE "overrun"]
  /\ MgrQuiet

\* wait_for(lock, remaining_time, pred) tests pred with the mutex held: true
\* ends the wait with true, false releases the mutex and blocks
RunWaitFor(c) ==
  /\ Alive
  /\ mgr.pc[c] = "wait_for"
  /\ IF WaitPredicate(mgr.turnOff)
       THEN mgr' = [mgr EXCEPT !.pc[c] = "terminate"]
       ELSE mgr' = [mgr EXCEPT !.pc[c] = "waiting", !.mutex = Free]
  /\ MgrQuiet

\* the blocked wait ends, by a notification, spuriously or by timeout, and
\* the mutex is taken again. After a timeout wait_for returns pred(), and
\* thread_running = !that; otherwise pred is tested again
RunWake(c, timeout) ==
  /\ Alive
  /\ mgr.pc[c] = "waiting"
  /\ mgr.mutex = Free
  /\ mgr' = [mgr EXCEPT
               !.mutex = c,
               !.wake = IF timeout THEN "timeout" ELSE "notified",
               !.pc[c] = IF ~timeout THEN "wait_for"
                         ELSE IF WaitPredicate(mgr.turnOff) THEN "terminate"
                         ELSE "body"]
  /\ MgrQuiet

\* remaining_time <= 0: the warning, then
\* thread_running = !turn_off_requested_.load();  the mutex stays held
RunOverrun(c) ==
  /\ Alive
  /\ mgr.pc[c] = "overrun"
  /\ mgr' = [mgr EXCEPT
               !.pc[c] = IF mgr.turnOff THEN "terminate" ELSE "body"]
  /\ MgrQuiet

\* TerminateDemoManager(): if (joinable()) join();  join blocks until the
\* handler thread has finished
TerminateDemoManager(c) ==
  /\ Alive
  /\ mgr.pc[c] = "terminate"
  /\ JoinReturns(mgr.handler)
  /\ mgr' = [mgr EXCEPT !.joined = TRUE, !.pc[c] = "return"]
  /\ MgrQuiet

\* return exit_code;  the unique_lock releases the mutex
RunReturn(c) ==
  /\ Alive
  /\ mgr.pc[c] = "return"
  /\ mgr' = [mgr EXCEPT !.pc[c] = "returned",
                        !.mutex = Free,
                        !.exit_code = <<EXIT_SUCCESS>>]
  /\ MgrQuiet

\* the steps of the handler thread
HandlerNext ==
  \/ \E ok \in BOOLEAN : HandlerSetup(ok)
  \/ \E ok \in BOOLEAN : HandlerSigwait(ok)
  \/ HandlerLock
  \/ HandlerStore
  \/ HandlerNotify
  \/ HandlerUnlock
  \/ HandlerExit
  \/ HandlerAbort

\* the steps of caller c inside StartManager
StartNext(c) ==
  \/ StartLock(c)
  \/ StartCheck(c)
  \/ \E started \in BOOLEAN : StartConstruct(c, started)
  \/ StartReturn(c)

\* the steps of caller c inside RunManager
RunNext(c) ==
  \/ RunLock(c)
  \/ \E ok \in BOOLEAN : RunGetSchedParam(c, ok)
  \/ \E remaining \in {"positive", "elapsed"} : RunBody(c, remaining)
  \/ RunWaitFor(c)
  \/ \E timeout \in BOOLEAN : RunWake(c, timeout)
  \/ RunOverrun(c)
  \/ TerminateDemoManager(c)
  \/ RunReturn(c)

\* the handler holds a constexpr Array<int, 2> of the shutdown signals
InitManager == Init /\ N = 2

ManagerNext ==
  \/ \E failed \in {"none", "sigfillset", "sigdelset", "pthread_sigmask"} :
       InitilizeSigHandlerMask(failed)
  \/ \E sig \in ShutdownSigs : Deliver(sig)
  \/ \E c \in Callers : StartNext(c)
  \/ \E c \in Callers : RunNext(c)
  \/ HandlerNext

ManagerSpec == InitManager /\ [][ManagerNext]_vars

\* every thread that can take a step eventually takes one, and a thread
\* that is ready to take the mutex whenever it is free eventually gets it
ManagerFairSpec ==
  /\ ManagerSpec
  /\ WF_vars(HandlerNext)
  /\ SF_vars(HandlerLock)
  /\ \A c \in Callers :
       /\ WF_vars(StartCheck(c) \/ (\E st \in BOOLEAN : StartConstruct(c, st))
                     \/ StartReturn(c))
       /\ WF_vars(RunNext(c))
       /\ SF_vars(RunLock(c))
       /\ SF_vars(\E timeout \in BOOLEAN : RunWake(c, timeout))

\* ===================================================================
\* Claims
\* ===================================================================
InViolation == proc # "Normal"
LineEmitted == proc \in {"Emitted", "Aborting", "Terminated"}
IdentityKnown == proc \in {"Identified", "Emitted", "Aborting", "Terminated"}

\* the violation line the handler streams for the violation in flight
FullDiagnostic ==
  <<ViolationPrefix>> \o ViolationRest(vio.ident, vio.location, vio.index, vio.size)

\* C1: for every capacity N >= 0, N = 0 included, at(i) with i >= N, mutable
\* or const, enters the violation path (with that index and size) and does
\* not return: no reference, no error value.
C1_OutOfRangeAtEntersViolation ==
  (last.op = "at" /\ last.idx >= N) =>
    /\ last.out = "violation"
    /\ InViolation
    /\ vio.index = last.idx
    /\ vio.size = N

\* C2: for every index i with 0 <= i < N, whatever was written, filled,
\* swapped or assigned before, at(i) returns the element operator[](i)
\* returns and does not enter the violation path.
C2_AtInRangeIsSubscript ==
  (last.op = "at" /\ last.idx < N) =>
    /\ last.out = "ref"
    /\ last.val = Subscript(arr[last.id].data, last.idx)
    /\ proc = "Normal"
    /\ sink = <<>>

C2_Witness ==
  /\ last.op = "at" /\ last.out = "ref"
  /\ last.idx > 0 /\ last.val # 0
  /\ arr[last.id].data[1] # last.val

\* C3 as stated: once the bound check has failed, the identity is obtained
\* before anything of the diagnostic is formatted and emitted.
C3_IdentityBeforeEmission == (sink # <<>>) => (vio.provider # "none")

\* C3 as amended: the fixed prefix of the diagnostic is emitted first, then
\* the identity is obtained, then the rest of the line is emitted, then the
\* abort notice, then the process terminates; no step is skipped, and the
\* process never terminates before the whole diagnostic has been emitted.
C3_ViolationOrder ==
  /\ (proc \in {"Normal", "Triggered"}) => (sink = <<>> /\ vio.provider = "none")
  /\ (proc = "PrefixEmitted") => (sink = <<ViolationPrefix>> /\ vio.provider = "none")
  /\ (proc = "Identified") => (sink = <<ViolationPrefix>> /\ vio.provider # "none")
  /\ (proc = "Emitted") => (sink = FullDiagnostic /\ vio.provider # "none")
  /\ (proc \in {"Aborting", "Terminated"}) =>
       (sink = FullDiagnostic \o <<AbortNotice>> /\ vio.provider # "none")
  /\ proc \in {"Normal", "Triggered", "PrefixEmitted", "Identified", "Emitted",
               "Aborting", "Terminated"}

C3_Witness == proc = "Terminated" /\ Len(sink) = 10

\* C4: the Violated state is terminal: once entered the process always
\* reaches abnormal termination, never goes back to Normal, stays
\* terminated, and no container operation runs afterwards (the containers
\* and the record of the last operation no longer change).
C4_ViolatedIsTerminal ==
  /\ [][InViolation => (InViolation' /\ arr' = arr /\ last' = last)]_vars
  /\ [][(proc = "Terminated") => (proc' = "Terminated")]_vars
  /\ [](InViolation => <>(proc = "Terminated"))

C4_Witness == proc = "Terminated" /\ \E id \in Ids : arr[id].live

\* C5 as stated: the diagnostic carries the identity, the file and line of
\* the failing access site (the place that called at), the index, the size.
C5_LocationIsAccessSite ==
  LineEmitted =>
    /\ sink[2] = Str(vio.ident)
    /\ sink[4] = Str(vio.site)
    /\ sink[6] = Num(last.idx)
    /\ sink[8] = Num(N)

\* C5 as amended: the diagnostic carries the identity, a location token that
\* is the path-stripped file name and the line of the bound check inside
\* at() itself (array.h:399 for the mutable at, array.h:420 for the const
\* one, whatever the caller), the offending index and the size N.
C5_DiagnosticContent ==
  LineEmitted =>
    /\ last.op = "at" /\ last.idx >= N
    /\ vio.ident # <<>>
    /\ sink[2] = Str(vio.ident)
    /\ sink[4] = Str(<<"array.h", ":", IF last.flag THEN "420" ELSE "399">>)
    /\ sink[6] = Num(last.idx)
    /\ sink[8] = Num(N)

C5_Witness ==
  /\ LineEmitted /\ last.flag /\ last.idx > N
  /\ vio.site = <<"app.cpp", ":", "20">>

\* C6 as stated: the sink has received exactly one line when the process
\* terminates.
C6_OneLine == (proc = "Terminated") => (CountLines(sink) = 1)

\* C6 as amended: the sink receives exactly two lines before the process
\* terminates: the formatted violation line, then the fixed notice of
\* Abort(); never more than one violation line.
C6_TwoLines ==
  /\ (proc = "Terminated") =>
       /\ CountLines(sink) = 2
       /\ CountLines(SubSeq(sink, 1, 9)) = 1
       /\ EndsLine(sink[9])
       /\ sink[10] = AbortNotice
  /\ CountLines(sink) <= 2
  /\ Len(SelectSeq(sink, LAMBDA f : f = ViolationPrefix)) <= 1

C6_Witness == proc = "Terminated" /\ CountLines(sink) = 2

C8_Construction ==
  /\ (last.op = "ctor_values" /\ Len(last.args) <= N) =>
       /\ last.out = "ok"
       /\ arr[last.id].live
       /\ Len(arr[last.id].data) = N
       /\ \A i \in 1..N :
            arr[last.id].data[i] =
              IF i <= Len(last.args) THEN last.args[i] ELSE 0
  /\ (last.op = "ctor_default") =>
       /\ Len(arr[last.id].data) = N
       /\ \A i \in 1..N : arr[last.id].data[i] = 0

C8_Witness ==
  /\ last.op = "ctor_values" /\ last.out = "ok"
  /\ Len(last.args) = 1 /\ Len(last.args) < N
  /\ last.args[1] # 0

\* C9: whatever was constructed, copied, moved, assigned, written, filled or
\* swapped, every container holds exactly N elements, size() and max_size()
\* return N and empty() returns (N = 0).
C9_SizeIsN ==
  /\ \A id \in Ids : arr[id].live => Len(arr[id].data) = N
  /\ (last.op = "size") =>
       (last.val = N /\ last.idx = N /\ last.flag = (N = 0))

C9_Witness ==
  /\ last.op = "size" /\ N > 0
  /\ arr[last.id].data # DefaultStorage(N)

\* C10: for all containers a, b of the same type and size N, N = 0 included,
\* a == b is defined and holds iff a[i] = b[i] for every i, and a != b is
\* its negation.
C10_EqualityElementwise ==
  (last.op \in {"eq", "ne"}) =>
    /\ last.out = "ok"
    /\ LET same == \A i \in 1..N :
                     arr[last.id].data[i] = arr[last.other].data[i]
       IN  last.flag = (IF last.op = "eq" THEN same ELSE ~same)

\* the lexicographic order of two element sequences of equal length: at the
\* first index where they differ, the left element is the smaller one
LexBefore(a, b) ==
  \E i \in 1..Len(a) : a[i] < b[i] /\ \A j \in 1..(i - 1) : a[j] = b[j]

\* C11: for the two containers a and b an ordering operator was just applied
\* to: a < b is the lexicographic order of the element sequences; a > b is
\* b < a, a <= b is not (b < a), a >= b is not (a < b); exactly one of
\* a < b, a equal to b element by element, b < a holds (and operator==,
\* where it is available, is that equality); the order is antisymmetric,
\* and transitive through every third element sequence c.
C11_LexicographicOrder ==
  (last.op \in {"lt", "le", "gt", "ge"}) =>
    LET a == arr[last.id].data
        b == arr[last.other].data
        same == \A i \in 1..N : a[i] = b[i]
    IN  /\ last.out = "ok"
        /\ last.flag = CASE last.op = "lt" -> LexBefore(a, b)
                          [] last.op = "gt" -> LexBefore(b, a)
                          [] last.op = "le" -> ~LexBefore(b, a)
                          [] last.op = "ge" -> ~LexBefore(a, b)
        /\ OpLt(a, b) = LexBefore(a, b)
        /\ OpGt(a, b) = OpLt(b, a)
        /\ OpLe(a, b) = ~OpLt(b, a)
        /\ OpGe(a, b) = ~OpLt(a, b)
        /\ Cardinality({ k \in 1..3 :
              CASE k = 1 -> OpLt(a, b)
                [] k = 2 -> same
                [] k = 3 -> OpLt(b, a) }) = 1
        /\ WellFormed("eq", N) => (OpEq(a, b, N) = same)
        /\ ~(OpLt(a, b) /\ OpLt(b, a))
        /\ (OpLe(a, b) /\ OpLe(b, a)) => same
        /\ \A c \in [1..N -> Vals] :
             /\ (OpLt(a, b) /\ OpLt(b, c)) => OpLt(a, c)
             /\ (OpLt(c, a) /\ OpLt(a, b)) => OpLt(c, b)
             /\ (OpLt(a, c) /\ OpLt(c, b)) => OpLt(a, b)

\* a <= b was asked of two distinct containers holding the same elements,
\* not all of them the default value
C11_Witness ==
  /\ last.op = "le" /\ last.flag /\ last.id # last.other
  /\ arr[last.id].data = arr[last.other].data
  /\ arr[last.id].data # DefaultStorage(N)

\* C12: a step that swaps a and b (member or non-member form) leaves in a
\* the elements b held before and in b the elements a held before, index by
\* index; a second swap of the same two restores both; swapping a container
\* with itself leaves it unchanged.
C12_SwapExchanges ==
  [][(proc = "Normal" /\ last'.op = "swap" /\ last'.out = "ok") =>
       LET x == last'.id
           y == last'.other
           again == SwapLoop(arr'[x].data, arr'[y].data, 0, N)
       IN  /\ \A i \in 1..N : /\ arr'[x].data[i] = arr[y].data[i]
                               /\ arr'[y].data[i] = arr[x].data[i]
           /\ Len(arr'[x].data) = N /\ Len(arr'[y].data) = N
           /\ again[1] = arr[x].data /\ again[2] = arr[y].data
           /\ (x = y) => (arr' = arr)
           /\ \A id \in Ids \ {x, y} : arr'[id] = arr[id]
           /\ arr'[x].live /\ arr'[y].live]_vars

\* the non-member swap has just exchanged two containers that differ
C12_Witness ==
  /\ last.op = "swap" /\ last.out = "ok" /\ last.flag
  /\ last.id # last.other
  /\ arr[last.id].data # arr[last.other].data

\* C13: a step a.fill(v) leaves v in every element a[0..N-1], whatever the
\* elements held before, and changes no other container; filling again with
\* the same v changes nothing.
C13_FillAssignsAll ==
  [][(proc = "Normal" /\ last'.op = "fill") =>
       LET x == last'.id
           v == last'.val
       IN  /\ last'.out = "ok"
           /\ Len(arr'[x].data) = N
           /\ \A i \in 1..N : arr'[x].data[i] = v
           /\ Fill(arr'[x].data, N, v) = arr'[x].data
           /\ \A id \in Ids \ {x} : arr'[id] = arr[id]
           /\ (N = 0) => (arr' = arr)]_vars

\* a container of at least two elements has just been filled with a value
\* that is not the default, next to a container holding something else
C13_Witness ==
  /\ last.op = "fill" /\ last.val # 0 /\ N >= 2
  /\ \E id \in Ids \ {last.id} :
       arr[id].live /\ arr[id].data # arr[last.id].data

\* C14: a zero-capacity container has size() = 0, empty() true,
\* begin() = end() and data() null, and fill(v) and swap with another
\* zero-capacity container are operations that can be called and change
\* nothing.
C14_ZeroCapacity ==
  (N = 0) =>
    /\ \A id \in Ids : arr[id].live => arr[id].data = <<>>
    /\ (last.op = "size") => (last.val = 0 /\ last.flag)
    /\ (last.op = "range") => (last.flag /\ last.idx = 0)
    /\ (last.op = "data") => last.flag
    /\ (last.op \in {"fill", "swap"}) => (last.out = "ok")

\* C15: a step that copy-constructs or copy-assigns a container from a
\* container s leaves in the destination, at every index, the element s
\* holds at that index, and leaves s (and every other container) unchanged.
C15_CopyKeepsSource ==
  [][(proc = "Normal" /\ last'.op \in {"ctor_copy", "assign_copy"}
        /\ last'.out = "ok") =>
       LET x == last'.id
           s == last'.other
       IN  /\ arr'[x].live /\ Len(arr'[x].data) = N
           /\ \A i \in 1..N : arr'[x].data[i] = arr[s].data[i]
           /\ (x # s) => (arr'[s] = arr[s])
           /\ \A id \in Ids \ {x} : arr'[id] = arr[id]]_vars

\* a container has just been copy-assigned from another one whose elements
\* are not all the default value
C15_Witness ==
  /\ T = "SafeTestClass" /\ N >= 2
  /\ last.op = "assign_copy" /\ last.id # last.other
  /\ arr[last.other].data # DefaultStorage(N)
  /\ arr[last.id].data = arr[last.other].data

\* C16: a step that move-constructs or move-assigns a container from another
\* container s leaves in the destination, at every index, the element s held
\* at that index before the step, and leaves every element of s in the
\* moved-from state of the element type (value 0 for SafeTestClass, the
\* value it had for int); both containers still hold N elements.  A
\* container move-assigned from itself keeps its elements.
C16_MoveResetsSource ==
  [][(proc = "Normal" /\ last'.op \in {"ctor_move", "assign_move"}) =>
       LET x == last'.id
           s == last'.other
       IN  /\ last'.out = "ok"
           /\ arr'[x].live /\ arr'[s].live
           /\ Len(arr'[x].data) = N /\ Len(arr'[s].data) = N
           /\ \A i \in 1..N : arr'[x].data[i] = arr[s].data[i]
           /\ (x # s) =>
                \A i \in 1..N :
                  arr'[s].data[i] =
                    IF T = "SafeTestClass" THEN 0 ELSE arr[s].data[i]
           /\ \A id \in Ids \ {x, s} : arr'[id] = arr[id]]_vars

\* a container has just been move-assigned elements that are not all the
\* default value, and the source now holds only the value 0
C16_Witness ==
  /\ T = "SafeTestClass" /\ N >= 2
  /\ last.op = "assign_move" /\ last.id # last.other
  /\ \A i \in 1..N : arr[last.id].data[i] # 0
  /\ \A i \in 1..N : arr[last.other].data[i] = 0

\* C17: an argument list that is exactly one container of the constructed
\* type selects the copy or the move constructor for every N >= 0 and
\* every value category, never a constructor template; and a single
\* initializer value of type T, also when T is itself a container type,
\* is taken by the initializer-value (variadic) constructor.
C17_ConstructorSelection ==
  (last.op = "declare" /\ Len(last.args) = 1) =>
    /\ last.args[1].same => (last.out \in {"copy", "move"} /\ last.flag)
    /\ (last.args[1].kind = T /\ N >= 1) => (last.out = "variadic")

\* C18: a declaration with initializer values does not compile (no object
\* ever exists) whenever there are more values than N, or a value is not
\* convertible to T, or a conversion would be narrowing; for every argument
\* list that is not a single container exactly one of the accepting
\* (variadic) and the rejecting constructor is enabled, and the accepting
\* one only when the three constraints hold.
C18_RejectedAtCompileTime ==
  (last.op = "declare") =>
    LET args == last.args
        tooMany == Len(args) > N
        unconvertible == \E i \in 1..Len(args) : ~args[i].conv
        narrowing == \E i \in 1..Len(args) : ~args[i].brace
        accepting == VariadicCtorEnabled(N, args)
        rejecting == RejectingCtorEnabled(N, args)
    IN  /\ (Len(args) >= 1 /\ ~(Len(args) = 1 /\ args[1].same)) =>
             ((tooMany \/ unconvertible \/ narrowing) =>
                (~last.flag /\ last.out \in {"rejecting", "none"}))
        /\ ~(Len(args) = 1 /\ args[1].isArray) =>
             /\ accepting # rejecting
             /\ accepting = (~tooMany /\ ~unconvertible /\ ~narrowing)
             /\ last.out = IF Len(args) = 0 THEN "default"
                           ELSE IF accepting THEN "variadic" ELSE "rejecting"
        /\ ~last.flag => last.out \notin {"default", "copy", "move", "variadic"}

\* values that fit in number and are all convertible, one of them only by a
\* narrowing conversion, have been rejected
C18_Witness ==
  /\ last.op = "declare" /\ last.out = "rejecting" /\ ~last.flag
  /\ Len(last.args) = 2 /\ Len(last.args) <= N
  /\ \A i \in 1..2 : last.args[i].conv
  /\ last.args[1].brace /\ ~last.args[2].brace

\* C19: copy construction, move construction, copy assignment, move
\* assignment and swap (member and non-member) between an Array<T, N> and a
\* container that differs in element type or in size, zero against non-zero
\* capacity included, never compile: no truncated, padded or converted
\* container comes to exist.
C19_MismatchRejected ==
  (last.op \in PairOps /\ last.other \in { o.kind : o \in OtherArrays }) =>
    /\ ~last.flag
    /\ last.out \in {"rejecting", "none"}
    /\ \A id \in Ids : ~arr[id].live

\* a container of another size was assigned to a zero-capacity container:
\* the conversion picks the rejecting constructor
C19_Witness ==
  /\ last.op = "assign_copy" /\ last.other = "Array<T,M>"
  /\ N = 0 /\ last.out = "rejecting" /\ ~last.flag

\* C20: under every interleaving of concurrent calls of Instance(), first
\* calls included, the constructor of the instance runs at most once, every
\* caller is returned the same object, no caller is returned it before its
\* initialization has completed, and once initialized the object is never
\* modified or initialized again.
C20_InstanceOnce ==
  /\ [](inst.ctorRuns <= 1)
  /\ [](Cardinality({ t \in Threads : inst.pc[t] \in {"construct", "release"} })
          <= 1)
  /\ [](\A t \in Threads :
          inst.got[t] # NoRef =>
            inst.got[t] = [addr |-> "&instance", object |-> "initialized"])
  /\ [](\A t \in Threads :
          inst.pc[t] = "return" =>
            (inst.guard = "done" /\ inst.object = "initialized"))
  /\ [][(inst.guard = "done") =>
          /\ inst'.guard = "done"
          /\ inst'.object = inst.object
          /\ inst'.ctorRuns = inst.ctorRuns]_vars

\* a thread waits at the declaration while another one is initializing the
\* object, and a third has not called yet
C20_Witness ==
  \E t \in Threads, u \in Threads, w \in Threads :
    /\ inst.pc[t] = "release" /\ inst.ctorRuns = 1 /\ inst.guard = "running"
    /\ inst.pc[u] = "declaration"
    /\ inst.pc[w] = "idle" /\ inst.got[w] = NoRef

\* ---- the demo application's manager
Winners == {c \in Callers : mgr.result[c] = "instance"}

Runner(c) ==
  mgr.pc[c] \in {"getschedparam", "body", "wait_for", "waiting", "overrun",
                 "terminate", "return", "returned"}

\* C21: whatever the interleaving of the StartManager calls, the call that
\* took the mutex first is the one call that is handed the instance, every
\* other call that returned was handed the empty optional, and there is never
\* more than one manager object nor more than one handler thread.
C21_OneManager ==
  /\ Cardinality(Winners) <= 1
  /\ \A c \in Callers :
       /\ mgr.result[c] = "instance" => c = mgr.first
       /\ mgr.result[c] = "nullopt" =>
            mgr.first # c /\ mgr.result[mgr.first] = "instance"
  /\ mgr.instances <= 1
  /\ mgr.handlerThreads <= 1
  /\ mgr.handlerThreads = mgr.instances
  /\ Winners # {} => mgr.instances = 1

\* one caller was handed the instance and is waiting in RunManager, another
\* was handed the empty optional and is inside StartManager once more,
\* holding the mutex
C21_Witness ==
  \E c, d \in Callers :
    /\ mgr.result[c] = "instance" /\ mgr.pc[c] = "waiting"
    /\ mgr.result[d] = "nullopt" /\ mgr.pc[d] = "check"
    /\ mgr.mutex = d
Returning(c) == mgr.pc[c] \in {"terminate", "return", "returned"}

\* C22: as long as the handler thread has received no SIGTERM or SIGINT the
\* shutdown flag is false and RunManager has neither left its loop nor
\* returned; a wait that ends with the flag still false is followed by the
\* loop (the next cycle after a timeout, the wait again otherwise); and the
\* flag, once true, stays true.
C22_RunsUntilSignal ==
  /\ [](mgr.received = "none" =>
          /\ ~mgr.turnOff
          /\ mgr.exit_code = <<>>
          /\ \A c \in Callers : ~Returning(c))
  /\ [][/\ mgr.turnOff => mgr'.turnOff
        /\ \A c \in Callers :
             (mgr.pc[c] = "waiting" /\ mgr'.pc[c] # "waiting") =>
                IF mgr.turnOff THEN mgr'.pc[c] \in {"terminate", "wait_for"}
                ELSE IF mgr'.wake = "timeout" THEN mgr'.pc[c] = "body"
                ELSE mgr'.pc[c] = "wait_for"]_vars

\* a signal is pending that the handler thread has not received yet, and
\* RunManager has started another cycle after a wait that timed out
C22_Witness ==
  \E c \in Callers :
    /\ mgr.pc[c] = "body" /\ mgr.wake = "timeout"
    /\ mgr.pending \in ShutdownSigs /\ mgr.received = "none"
    /\ mgr.handler = "sigwait"
\* a shutdown signal has been sent to the process after the manager was
\* started
SignalAfterStart == mgr.delivered /\ mgr.instances = 1

\* RunManager has returned with the flag set, or the process has ended
ShutDown ==
  \/ mgr.process # "running"
  \/ mgr.turnOff /\ \E c \in Callers : mgr.pc[c] = "returned"

\* C23: under fair scheduling, once a SIGTERM or SIGINT has been sent to the
\* process after the manager was started, the handler thread eventually sets
\* the shutdown flag and RunManager eventually returns, wherever RunManager
\* is when the signal arrives and whatever time each cycle takes.
C23_ShutdownEventually == SignalAfterStart ~> ShutDown
\* C29: RunManager calls TerminateDemoManager only after the handler thread
\* has received a signal, set the flag and notified; the join returns only
\* when the handler thread has finished; RunManager returns only after the
\* join, and the exit code it returns is always the success code.
C29_ReturnAfterHandler ==
  /\ \A c \in Callers :
       /\ Returning(c) =>
            mgr.received \in ShutdownSigs /\ mgr.turnOff /\ mgr.notified = 1
       /\ mgr.pc[c] \in {"return", "returned"} =>
            mgr.joined /\ mgr.handler = "done"
  /\ mgr.joined => mgr.handler = "done"
  /\ mgr.exit_code # <<>> =>
       /\ mgr.exit_code = <<EXIT_SUCCESS>>
       /\ mgr.joined
       /\ \E c \in Callers : mgr.pc[c] = "returned"

\* RunManager has returned the success code after joining the handler
\* thread, which had received SIGTERM while RunManager was waiting
C29_Witness ==
  \E c \in Callers :
    /\ mgr.pc[c] = "returned" /\ mgr.exit_code = <<EXIT_SUCCESS>>
    /\ mgr.joined /\ mgr.handler = "done"
    /\ mgr.received = "SIGTERM" /\ mgr.wake = "notified"
\* C30: after a failed set-up call of the handler thread (sigemptyset,
\* sigaddset, pthread_sigmask, sigwait) the flag has not been set and nobody
\* has been notified by that thread, and the process is eventually ended;
\* the flag is true only after a signal was received; and the steps that set
\* the flag and notify the waiters are taken with the mutex held by the
\* handler thread.
C30_HandlerFailureAborts ==
  /\ [](mgr.handler = "failed" =>
          ~mgr.turnOff /\ mgr.notified = 0 /\ mgr.received = "none")
  /\ [](mgr.turnOff \/ mgr.notified = 1 => mgr.received \in ShutdownSigs)
  /\ [][(mgr'.turnOff # mgr.turnOff \/ mgr'.notified # mgr.notified) =>
          /\ mgr.mutex = HandlerThread /\ mgr'.mutex = HandlerThread
          /\ mgr.received \in ShutdownSigs]_vars
  /\ [][mgr.handler = "failed" =>
          mgr'.handler = "failed" /\ mgr'.mutex # HandlerThread]_vars
  /\ (mgr.handler = "failed") ~> (mgr.process # "running")

\* the handler thread's sigwait failed while RunManager was waiting, and the
\* process was aborted with the flag still false
C30_Witness ==
  /\ mgr.handler = "failed" /\ mgr.process = "aborted"
  /\ ~mgr.turnOff
  /\ \E c \in Callers : mgr.pc[c] = "waiting" /\ mgr.wake = "timeout"
\* ---- name retrieval
\* what the Linux implementation is to return, in the order of its tests
LinuxExpected ==
  IF os.null THEN "NullBuffer"
  ELSE IF os.size = 0 THEN "BufferTooSmall"
  ELSE IF os.retrieval # "ok" \/ os.name = <<>> THEN "RetrievalFailed"
  ELSE IF Len(os.name) + 1 > os.size THEN "BufferTooSmall"
  ELSE "Success"

Untouched == IF os.null THEN <<>> ELSE [i \in 1..os.size |-> Garbage]

\* C24: on Linux, GetProcessName tests in this order: null buffer, size 0,
\* retrieval failed (path, file, empty name), buffer too small for the name
\* and its terminator; otherwise it succeeds with the whole name in the
\* buffer, followed by a NUL. On every result but Success the caller's
\* buffer is as it was.
C24_LinuxNameDecision ==
  (platform = "linux" /\ os.pc = "done") =>
     /\ os.code = LinuxExpected
     /\ os.code # "Success" => os.buffer = Untouched
     /\ os.code = "Success" =>
          /\ CStr(os.buffer) = os.name
          /\ os.buffer[Len(os.name) + 1] = NUL

\* a Linux call with a name that exactly fits: two letters and the NUL in a
\* buffer of three
C24_Witness ==
  /\ platform = "linux" /\ os.pc = "done" /\ os.code = "Success"
  /\ Len(os.name) = 2 /\ os.size = 3
  /\ os.buffer = os.name \o <<NUL>>

\* C27: a call of GetProcessName writes neither outside the caller's buffer
\* nor outside an array of its own, whatever the buffer size and the name, on
\* Linux and on QNX.
C27_NoWriteOutside ==
  os.pc = "done" => os.outside = {} /\ os.outsideTemp = {}
\* ---- ownership of the elements
\* the containers an operation names as ones it may modify
Named(o) ==
  CASE o.op \in {"write", "fill", "ctor_copy", "assign_copy"} -> {o.id}
    [] o.op = "swap" -> {o.id, o.other}
    [] OTHER -> DOMAIN arr

\* C25: a step that writes an element of a container, fills a container,
\* swaps two containers, or copy-constructs or copy-assigns a container
\* changes the elements of no container but the ones it names (the written,
\* filled, swapped or destination container): in particular the source of a
\* copy and the copy are independent afterwards, and a container that no
\* operation names keeps its elements.
C25_ExclusiveStorage ==
  [][\A id \in (DOMAIN arr) \ Named(last') : arr'[id] = arr[id]]_vars

\* an element of one container has just been written; the other container,
\* which holds the values the first held before, and the bystander are as
\* they were
C25_Witness ==
  /\ N = MaxN
  /\ last.op = "write" /\ last.id = "b" /\ last.out = "ref"
  /\ arr["a"].live /\ arr["b"].live
  /\ arr["a"].data = DefaultStorage(N)
  /\ arr["b"].data # arr["a"].data
  /\ arr[Bystander] = Obj(BystanderStorage(N))
\* ---- front, back, iteration
\* C26: whatever operations came before, on a container of capacity N > 0
\* front() is the element operator[](0) gives and back() the element
\* operator[](N - 1) gives, and the loop from begin() to end() visits exactly
\* the N elements, in the order of their indices; on a container of capacity
\* 0 front() and back() do not compile.
C26_FrontBackIteration ==
  /\ last.op = "front" =>
       IF N > 0
       THEN last.out = "ref" /\ last.val = Subscript(arr[last.id].data, 0)
       ELSE last.out = "ill_formed"
  /\ last.op = "back" =>
       IF N > 0
       THEN last.out = "ref" /\ last.val = Subscript(arr[last.id].data, N - 1)
       ELSE last.out = "ill_formed"
  /\ last.op = "iterate" =>
       /\ last.idx = N /\ Len(last.args) = N
       /\ \A i \in 0..(N - 1) :
            last.args[i + 1] = Subscript(arr[last.id].data, i)

\* back() on a container whose last element differs from its first
C26_Witness ==
  /\ N = MaxN /\ last.op = "back" /\ last.out = "ref"
  /\ last.val = MaxVal
  /\ arr[last.id].data[1] # last.val
\* ---- entering the violation path
\* C28: the only step that leaves the Normal state is a call of at(i) with
\* i >= N; construction, copy, move, destruction, operator[] with an index in
\* range, front, back, get, data, size, iteration, fill, swap and the
\* comparisons leave the program in the Normal state, and a program outside
\* the Normal state got there by such a call of at().
C28_OnlyAtViolates ==
  /\ [][(proc = "Normal" /\ last' # last /\ ~(last'.op = "at" /\ last'.idx >= N))
          => (proc' = "Normal" /\ vio' = NoVio /\ sink' = <<>>)]_vars
  /\ [][(proc = "Normal" /\ proc' # "Normal") =>
          (last'.op = "at" /\ last'.idx >= N /\ last'.out = "violation")]_vars
  /\ [](proc # "Normal" => last.op = "at" /\ last.idx >= N /\ vio.index >= N)
  /\ [](proc = "Normal" => vio = NoVio /\ sink = <<>>)

\* at(N) on a container of the largest capacity has just entered the
\* violation path
C28_Witness ==
  /\ N = MaxN /\ proc = "Triggered"
  /\ last.op = "at" /\ last.idx = N /\ last.out = "violation"
  /\ arr[Bystander].live
====
